---- MODULE Spec2Model ----
(***************************************************************************)
(* Model of the Broadcast network behaviour of libp2p-broadcast            *)
(* (src/src/lib.rs): the subscription index (subscriptions, peers,         *)
(* topics), the outbound queue (events) and the handlers that the swarm    *)
(* calls on it.  Every variable is indexed by the node that owns the       *)
(* Broadcast value; the operators take that node as self.                  *)
(***************************************************************************)
EXTENDS Integers, Sequences, FiniteSets, TLC

\* ------------------------------------------------------------------ bounds
\* Connections the swarm keeps open to one peer at the same time.
MaxConn == 2
\* Entries a queue holds at once (the VecDeque is unbounded): a call that
\* would push past it waits until poll has drained the queue far enough.
MaxQueue == 2
\* API calls the test of two nodes makes in one run.
MaxCalls == 3

PeerIds == {"a", "b", "c"}
Topics == {"t1", "t2"}
Payloads == {"m1"}

\* The peers that run a Broadcast of their own in the model.
Nodes == {"a", "b"}

\* ------------------------------------------------------------------ state
VARIABLES
    subscriptions,  \* Broadcast.subscriptions : FnvHashSet<Topic>
    peers,          \* Broadcast.peers : FnvHashMap<PeerId, FnvHashSet<Topic>>
    topics,         \* Broadcast.topics : FnvHashMap<Topic, FnvHashSet<PeerId>>
    events,         \* Broadcast.events : VecDeque<NetworkBehaviourAction>
    established,    \* the swarm's count of established connections per peer
    ret,            \* outcome of the last call into the behaviour
    wire,           \* the notification DummySwarm::next polled and has not handed over
    returned,       \* the events DummySwarm::next returned, per node
    called          \* the API calls the test made, per node

vars == <<subscriptions, peers, topics, events, established, ret,
          wire, returned, called>>

\* The state of the test of two nodes beside the swarms' connections.
harness == <<wire, returned, called>>

\* ------------------------------------------------------------------ values
\* protocol::Message
Subscribe(topic) == [type |-> "Subscribe", topic |-> topic]
Unsubscribe(topic) == [type |-> "Unsubscribe", topic |-> topic]
BroadcastMsg(topic, msg) == [type |-> "Broadcast", topic |-> topic, data |-> msg]

\* BroadcastEvent
Subscribed(peer, topic) == [type |-> "Subscribed", peer |-> peer, topic |-> topic]
Unsubscribed(peer, topic) == [type |-> "Unsubscribed", peer |-> peer, topic |-> topic]
Received(peer, topic, msg) ==
    [type |-> "Received", peer |-> peer, topic |-> topic, data |-> msg]

\* NetworkBehaviourAction
NotifyHandler(peer, msg) == [kind |-> "NotifyHandler", peer_id |-> peer, event |-> msg]
GenerateEvent(ev) == [kind |-> "GenerateEvent", event |-> ev]

\* HandlerEvent
Rx(msg) == [type |-> "Rx", msg |-> msg]
Tx == [type |-> "Tx"]

\* FromSwarm
ConnectionEstablished(peer, other) ==
    [type |-> "ConnectionEstablished", peer_id |-> peer, other_established |-> other]
ConnectionClosed(peer, remaining) ==
    [type |-> "ConnectionClosed", peer_id |-> peer, remaining_established |-> remaining]

\* Outcome of a call: a unit return, poll's Poll value, or a panic.
Unit == [tag |-> "Unit"]
Pending == [tag |-> "Pending"]
Ready(event) == [tag |-> "Ready", event |-> event]
Panic == [tag |-> "Panic"]

\* ------------------------------------------------------------------ helpers
\* The orders in which a `for` loop may visit a hash set or the keys of a
\* hash map: the iteration order of FnvHashSet/FnvHashMap is unspecified.
IterOrders(S) ==
    {s \in [1..Cardinality(S) -> S] :
        \A i, j \in 1..Cardinality(S) : i # j => s[i] # s[j]}

\* HashMap::insert(key, value): adds the entry or replaces its value.
MapInsert(map, key, value) ==
    [k \in DOMAIN map \cup {key} |-> IF k = key THEN value ELSE map[k]]

\* HashMap::remove(key)
MapRemove(map, key) == [k \in DOMAIN map \ {key} |-> map[k]]

\* HashMap::entry(key).or_default(): the map with an empty set at a new key.
EntryOrDefault(map, key) ==
    IF key \in DOMAIN map THEN map ELSE MapInsert(map, key, {})

\* self.events.push_back(e) for each e of es, in order.
PushAll(self, es) ==
    /\ Len(events[self]) + Len(es) <= MaxQueue
    /\ events' = [events EXCEPT ![self] = @ \o es]

\* The NotifyHandler entries one loop pushes: one per visited peer, same message.
NotifyEach(order, msg) == [i \in 1..Len(order) |-> NotifyHandler(order[i], msg)]

\* The call returns to its caller with value r.
Return(self, r) == ret' = [ret EXCEPT ![self] = r]

\* ------------------------------------------------------------------ Broadcast
\* Broadcast::topics(peer): the topics a peer announced, none if not connected.
TopicsOf(self, peer) ==
    IF peer \in DOMAIN peers[self] THEN peers[self][peer] ELSE {}

\* Broadcast::peers(topic): the peers subscribed to a topic, none if unknown.
PeersOf(self, topic) ==
    IF topic \in DOMAIN topics[self] THEN topics[self][topic] ELSE {}

\* subscribe that notifies the peers subscribed to the topic only.
subscribe_notifies_subscribers(self, topic) ==
    /\ subscriptions' = [subscriptions EXCEPT ![self] = @ \cup {topic}]
    /\ \E order \in IterOrders(IF topic \in DOMAIN topics[self]
                                THEN topics[self][topic] ELSE {}) :
           PushAll(self, NotifyEach(order, Subscribe(topic)))
    /\ Return(self, Unit)
    /\ UNCHANGED <<peers, topics>>

\* subscribe that also reports the subscription to the local application.
subscribe_echoes(self, topic) ==
    /\ subscriptions' = [subscriptions EXCEPT ![self] = @ \cup {topic}]
    /\ \E order \in IterOrders(DOMAIN peers[self]) :
           PushAll(self, Append(NotifyEach(order, Subscribe(topic)),
                                GenerateEvent(Subscribed(self, topic))))
    /\ Return(self, Unit)
    /\ UNCHANGED <<peers, topics>>

\* subscribe that notifies only when the topic is newly inserted.
subscribe_once(self, topic) ==
    /\ subscriptions' = [subscriptions EXCEPT ![self] = @ \cup {topic}]
    /\ IF topic \in subscriptions[self]
       THEN UNCHANGED events
       ELSE \E order \in IterOrders(DOMAIN peers[self]) :
                PushAll(self, NotifyEach(order, Subscribe(topic)))
    /\ Return(self, Unit)
    /\ UNCHANGED <<peers, topics>>

\* Broadcast::subscribe
subscribe(self, topic) ==
    /\ subscriptions' = [subscriptions EXCEPT ![self] = @ \cup {topic}]
    /\ \E order \in IterOrders(DOMAIN peers[self]) :
           PushAll(self, NotifyEach(order, Subscribe(topic)))
    /\ Return(self, Unit)
    /\ UNCHANGED <<peers, topics>>

\* unsubscribe that tells no peer.
unsubscribe_silent(self, topic) ==
    /\ subscriptions' = [subscriptions EXCEPT ![self] = @ \ {topic}]
    /\ Return(self, Unit)
    /\ UNCHANGED <<peers, topics, events>>

\* unsubscribe that notifies every connected peer, as subscribe does.
unsubscribe_notifies_all(self, topic) ==
    /\ subscriptions' = [subscriptions EXCEPT ![self] = @ \ {topic}]
    /\ \E order \in IterOrders(DOMAIN peers[self]) :
           PushAll(self, NotifyEach(order, Unsubscribe(topic)))
    /\ Return(self, Unit)
    /\ UNCHANGED <<peers, topics>>

\* Broadcast::unsubscribe
unsubscribe(self, topic) ==
    /\ subscriptions' = [subscriptions EXCEPT ![self] = @ \ {topic}]
    /\ IF topic \in DOMAIN topics[self]
       THEN \E order \in IterOrders(topics[self][topic]) :
                PushAll(self, NotifyEach(order, Unsubscribe(topic)))
       ELSE UNCHANGED events
    /\ Return(self, Unit)
    /\ UNCHANGED <<peers, topics>>

\* broadcast that sends only on a topic the node itself subscribes to.
broadcast_if_subscribed(self, topic, msg) ==
    /\ IF topic \in DOMAIN topics[self] /\ topic \in subscriptions[self]
       THEN \E order \in IterOrders(topics[self][topic]) :
                PushAll(self, NotifyEach(order, BroadcastMsg(topic, msg)))
       ELSE UNCHANGED events
    /\ Return(self, Unit)
    /\ UNCHANGED <<subscriptions, peers, topics>>

\* broadcast that floods every connected peer instead of the topic's peers.
broadcast_to_all_peers(self, topic, msg) ==
    /\ \E order \in IterOrders(DOMAIN peers[self]) :
           PushAll(self, NotifyEach(order, BroadcastMsg(topic, msg)))
    /\ Return(self, Unit)
    /\ UNCHANGED <<subscriptions, peers, topics>>

\* Broadcast::broadcast
broadcast(self, topic, msg) ==
    /\ IF topic \in DOMAIN topics[self]
       THEN \E order \in IterOrders(topics[self][topic]) :
                PushAll(self, NotifyEach(order, BroadcastMsg(topic, msg)))
       ELSE UNCHANGED events
    /\ Return(self, Unit)
    /\ UNCHANGED <<subscriptions, peers, topics>>

\* inject_connected that announces the keys of topics, not subscriptions.
inject_connected_announces_topics(self, peer) ==
    /\ peers' = [peers EXCEPT ![self] = MapInsert(@, peer, {})]
    /\ \E order \in IterOrders(DOMAIN topics[self]) :
           PushAll(self, [i \in 1..Len(order) |->
                              NotifyHandler(peer, Subscribe(order[i]))])
    /\ Return(self, Unit)
    /\ UNCHANGED <<subscriptions, topics>>

\* Broadcast::inject_connected
inject_connected(self, peer) ==
    /\ peers' = [peers EXCEPT ![self] = MapInsert(@, peer, {})]
    /\ \E order \in IterOrders(subscriptions[self]) :
           PushAll(self, [i \in 1..Len(order) |->
                              NotifyHandler(peer, Subscribe(order[i]))])
    /\ Return(self, Unit)
    /\ UNCHANGED <<subscriptions, topics>>

\* inject_disconnected that also drops the queued notifications for the peer.
inject_disconnected_purges_queue(self, peer) ==
    /\ IF peer \in DOMAIN peers[self]
       THEN /\ peers' = [peers EXCEPT ![self] = MapRemove(@, peer)]
            /\ topics' = [topics EXCEPT ![self] =
                              [t \in DOMAIN @ |->
                                   IF t \in peers[self][peer] THEN @[t] \ {peer}
                                                              ELSE @[t]]]
       ELSE UNCHANGED <<peers, topics>>
    /\ events' = [events EXCEPT ![self] =
                      SelectSeq(@, LAMBDA e : ~(e.kind = "NotifyHandler"
                                                /\ e.peer_id = peer))]
    /\ Return(self, Unit)
    /\ UNCHANGED subscriptions

\* inject_disconnected without the loop over the peer's topics.
inject_disconnected_keeps_topics(self, peer) ==
    /\ peers' = [peers EXCEPT ![self] = MapRemove(@, peer)]
    /\ Return(self, Unit)
    /\ UNCHANGED <<subscriptions, topics, events>>

\* Broadcast::inject_disconnected
inject_disconnected(self, peer) ==
    /\ IF peer \in DOMAIN peers[self]
       THEN /\ peers' = [peers EXCEPT ![self] = MapRemove(@, peer)]
            /\ topics' = [topics EXCEPT ![self] =
                              [t \in DOMAIN @ |->
                                   IF t \in peers[self][peer] THEN @[t] \ {peer}
                                                              ELSE @[t]]]
       ELSE UNCHANGED <<peers, topics>>
    /\ Return(self, Unit)
    /\ UNCHANGED <<subscriptions, events>>

\* on_swarm_event that ignores other_established and remaining_established.
on_swarm_event_every_connection(self, event) ==
    IF event.type = "ConnectionEstablished" THEN inject_connected(self, event.peer_id)
    ELSE IF event.type = "ConnectionClosed" THEN inject_disconnected(self, event.peer_id)
    ELSE /\ Return(self, Unit)
         /\ UNCHANGED <<subscriptions, peers, topics, events>>

\* NetworkBehaviour::on_swarm_event
on_swarm_event(self, event) ==
    IF event.type = "ConnectionEstablished"
    THEN IF event.other_established = 0
         THEN inject_connected(self, event.peer_id)
         ELSE /\ Return(self, Unit)
              /\ UNCHANGED <<subscriptions, peers, topics, events>>
    ELSE IF event.type = "ConnectionClosed"
    THEN IF event.remaining_established = 0
         THEN inject_disconnected(self, event.peer_id)
         ELSE /\ Return(self, Unit)
              /\ UNCHANGED <<subscriptions, peers, topics, events>>
    ELSE /\ Return(self, Unit)
         /\ UNCHANGED <<subscriptions, peers, topics, events>>

\* The Subscribe arm reporting only a subscription that is new.
RxSubscribe_dedup(self, peer, topic) ==
    IF peer \in DOMAIN peers[self]
    THEN /\ peers' = [peers EXCEPT ![self][peer] = @ \cup {topic}]
         /\ topics' = [topics EXCEPT ![self] =
                           [EntryOrDefault(@, topic) EXCEPT ![topic] = @ \cup {peer}]]
         /\ IF topic \in peers[self][peer]
            THEN UNCHANGED events
            ELSE PushAll(self, <<GenerateEvent(Subscribed(peer, topic))>>)
         /\ Return(self, Unit)
         /\ UNCHANGED subscriptions
    ELSE /\ topics' = [topics EXCEPT ![self] = EntryOrDefault(@, topic)]
         /\ Return(self, Panic)
         /\ UNCHANGED <<subscriptions, peers, events>>

\* The Subscribe arm that also subscribes this node to the topic.
RxSubscribe_subscribes_locally(self, peer, topic) ==
    IF peer \in DOMAIN peers[self]
    THEN /\ peers' = [peers EXCEPT ![self][peer] = @ \cup {topic}]
         /\ topics' = [topics EXCEPT ![self] =
                           [EntryOrDefault(@, topic) EXCEPT ![topic] = @ \cup {peer}]]
         /\ subscriptions' = [subscriptions EXCEPT ![self] = @ \cup {topic}]
         /\ PushAll(self, <<GenerateEvent(Subscribed(peer, topic))>>)
         /\ Return(self, Unit)
    ELSE /\ topics' = [topics EXCEPT ![self] = EntryOrDefault(@, topic)]
         /\ Return(self, Panic)
         /\ UNCHANGED <<subscriptions, peers, events>>

\* The Subscribe arm with peers.entry(peer).or_default() in place of the
\* unwrap: a message of an unknown peer creates its entry.
RxSubscribe_creates_peer(self, peer, topic) ==
    /\ peers' = [peers EXCEPT ![self] =
                     [EntryOrDefault(@, peer) EXCEPT ![peer] = @ \cup {topic}]]
    /\ topics' = [topics EXCEPT ![self] =
                      [EntryOrDefault(@, topic) EXCEPT ![topic] = @ \cup {peer}]]
    /\ PushAll(self, <<GenerateEvent(Subscribed(peer, topic))>>)
    /\ Return(self, Unit)
    /\ UNCHANGED subscriptions

\* on_connection_handler_event, arm Rx(Subscribe(topic)).  The topic's entry
\* is created before peers.get_mut(&peer).unwrap() is evaluated, so a panic
\* on an unknown peer leaves the new empty entry behind.
RxSubscribe(self, peer, topic) ==
    IF peer \in DOMAIN peers[self]
    THEN /\ peers' = [peers EXCEPT ![self][peer] = @ \cup {topic}]
         /\ topics' = [topics EXCEPT ![self] =
                           [EntryOrDefault(@, topic) EXCEPT ![topic] = @ \cup {peer}]]
         /\ PushAll(self, <<GenerateEvent(Subscribed(peer, topic))>>)
         /\ Return(self, Unit)
         /\ UNCHANGED subscriptions
    ELSE /\ topics' = [topics EXCEPT ![self] = EntryOrDefault(@, topic)]
         /\ Return(self, Panic)
         /\ UNCHANGED <<subscriptions, peers, events>>

\* The Broadcast arm relaying the message to the topic's other peers.
RxBroadcast_relays(self, peer, topic, msg) ==
    /\ \E order \in IterOrders(PeersOf(self, topic) \ {peer}) :
           PushAll(self, Append(NotifyEach(order, BroadcastMsg(topic, msg)),
                                GenerateEvent(Received(peer, topic, msg))))
    /\ Return(self, Unit)
    /\ UNCHANGED <<subscriptions, peers, topics>>

\* on_connection_handler_event, arm Rx(Broadcast(topic, msg))
RxBroadcast(self, peer, topic, msg) ==
    /\ PushAll(self, <<GenerateEvent(Received(peer, topic, msg))>>)
    /\ Return(self, Unit)
    /\ UNCHANGED <<subscriptions, peers, topics>>

\* The Unsubscribe arm without the removal from the topic's peer set.
RxUnsubscribe_keeps_peer(self, peer, topic) ==
    IF peer \in DOMAIN peers[self]
    THEN /\ peers' = [peers EXCEPT ![self][peer] = @ \ {topic}]
         /\ PushAll(self, <<GenerateEvent(Unsubscribed(peer, topic))>>)
         /\ Return(self, Unit)
         /\ UNCHANGED <<subscriptions, topics>>
    ELSE /\ Return(self, Panic)
         /\ UNCHANGED <<subscriptions, peers, topics, events>>

\* on_connection_handler_event, arm Rx(Unsubscribe(topic))
RxUnsubscribe(self, peer, topic) ==
    IF peer \in DOMAIN peers[self]
    THEN /\ peers' = [peers EXCEPT ![self][peer] = @ \ {topic}]
         /\ topics' = IF topic \in DOMAIN topics[self]
                      THEN [topics EXCEPT ![self][topic] = @ \ {peer}]
                      ELSE topics
         /\ PushAll(self, <<GenerateEvent(Unsubscribed(peer, topic))>>)
         /\ Return(self, Unit)
         /\ UNCHANGED subscriptions
    ELSE /\ Return(self, Panic)
         /\ UNCHANGED <<subscriptions, peers, topics, events>>

\* NetworkBehaviour::on_connection_handler_event
on_connection_handler_event(self, peer, msg) ==
    IF msg.type = "Tx"
    THEN /\ Return(self, Unit)
         /\ UNCHANGED <<subscriptions, peers, topics, events>>
    ELSE IF msg.msg.type = "Subscribe" THEN RxSubscribe(self, peer, msg.msg.topic)
    ELSE IF msg.msg.type = "Broadcast"
    THEN RxBroadcast(self, peer, msg.msg.topic, msg.msg.data)
    ELSE RxUnsubscribe(self, peer, msg.msg.topic)

\* poll with pop_back in place of pop_front.
poll_pop_back(self) ==
    /\ IF events[self] # << >>
       THEN /\ events' = [events EXCEPT ![self] = SubSeq(@, 1, Len(@) - 1)]
            /\ Return(self, Ready(events[self][Len(events[self])]))
       ELSE /\ Return(self, Pending)
            /\ UNCHANGED events
    /\ UNCHANGED <<subscriptions, peers, topics>>

\* NetworkBehaviour::poll
poll(self) ==
    /\ IF events[self] # << >>
       THEN /\ events' = [events EXCEPT ![self] = Tail(@)]
            /\ Return(self, Ready(Head(events[self])))
       ELSE /\ Return(self, Pending)
            /\ UNCHANGED events
    /\ UNCHANGED <<subscriptions, peers, topics>>

\* ------------------------------------------------------------------ driving
\* The messages a remote can send.
Messages ==
    {Subscribe(t) : t \in Topics} \cup {Unsubscribe(t) : t \in Topics}
        \cup {BroadcastMsg(t, m) : t \in Topics, m \in Payloads}

\* Broadcast::new / Default on every node: empty index, empty queue; the
\* swarms have no connection.
Init ==
    /\ subscriptions = [n \in Nodes |-> {}]
    /\ peers = [n \in Nodes |-> << >>]
    /\ topics = [n \in Nodes |-> << >>]
    /\ events = [n \in Nodes |-> << >>]
    /\ established = [n \in Nodes |-> [p \in PeerIds \ {n} |-> 0]]
    /\ ret = [n \in Nodes |-> Unit]
    /\ wire = << >>
    /\ returned = [n \in Nodes |-> << >>]
    /\ called = [n \in Nodes |-> << >>]

\* A panic unwinds out of the behaviour: nothing is called on it afterwards.
Running(self) == ret[self] # Panic

\* The node whose Broadcast the single-node specifications drive; its swarm
\* connects it to the other peers.
Local == "a"
Remotes == PeerIds \ {Local}

\* The application calls the public API.
CallSubscribe ==
    \E t \in Topics : Running(Local) /\ subscribe(Local, t) /\ UNCHANGED <<established, harness>>
CallUnsubscribe ==
    \E t \in Topics : Running(Local) /\ unsubscribe(Local, t) /\ UNCHANGED <<established, harness>>
CallBroadcast ==
    \E t \in Topics, m \in Payloads :
        Running(Local) /\ broadcast(Local, t, m) /\ UNCHANGED <<established, harness>>
CallPoll == Running(Local) /\ poll(Local) /\ UNCHANGED <<established, harness>>

\* A swarm that counts the established connections of each peer and reports
\* other_established = the count before the open, remaining_established =
\* the count after the close, and handler events of established connections.
SwarmEstablished ==
    \E p \in Remotes :
        /\ Running(Local)
        /\ established[Local][p] < MaxConn
        /\ on_swarm_event(Local, ConnectionEstablished(p, established[Local][p]))
        /\ established' = [established EXCEPT ![Local][p] = @ + 1]
        /\ UNCHANGED harness
SwarmClosed ==
    \E p \in Remotes :
        /\ Running(Local)
        /\ established[Local][p] > 0
        /\ on_swarm_event(Local, ConnectionClosed(p, established[Local][p] - 1))
        /\ established' = [established EXCEPT ![Local][p] = @ - 1]
        /\ UNCHANGED harness
SwarmRx ==
    \E p \in Remotes, m \in Messages :
        /\ Running(Local)
        /\ established[Local][p] > 0
        /\ on_connection_handler_event(Local, p, Rx(m))
        /\ UNCHANGED <<established, harness>>
SwarmTx ==
    \E p \in Remotes :
        /\ Running(Local)
        /\ established[Local][p] > 0
        /\ on_connection_handler_event(Local, p, Tx)
        /\ UNCHANGED <<established, harness>>

Next ==
    \/ CallSubscribe
    \/ CallUnsubscribe
    \/ CallBroadcast
    \/ CallPoll
    \/ SwarmEstablished
    \/ SwarmClosed
    \/ SwarmRx
    \/ SwarmTx

Spec == Init /\ [][Next]_vars

\* A host that keeps no contract: connection events with any counts, handler
\* events for any peer, in any order.
AnyEstablished ==
    \E p \in Remotes, n \in 0..MaxConn :
        /\ Running(Local)
        /\ on_swarm_event(Local, ConnectionEstablished(p, n))
        /\ UNCHANGED <<established, harness>>
AnyClosed ==
    \E p \in Remotes, n \in 0..MaxConn :
        /\ Running(Local)
        /\ on_swarm_event(Local, ConnectionClosed(p, n))
        /\ UNCHANGED <<established, harness>>
AnyRx ==
    \E p \in Remotes, m \in Messages :
        /\ Running(Local)
        /\ on_connection_handler_event(Local, p, Rx(m))
        /\ UNCHANGED <<established, harness>>
AnyTx ==
    \E p \in Remotes :
        /\ Running(Local)
        /\ on_connection_handler_event(Local, p, Tx)
        /\ UNCHANGED <<established, harness>>

NextAnyHost ==
    \/ CallSubscribe
    \/ CallUnsubscribe
    \/ CallBroadcast
    \/ CallPoll
    \/ AnyEstablished
    \/ AnyClosed
    \/ AnyRx
    \/ AnyTx

SpecAnyHost == Init /\ [][NextAnyHost]_vars

\* ------------------------------------------------------------------ two nodes
\* tests::DummySwarm: each node's swarm holds the other's behaviour in
\* connections, and the test calls dial, next and the API on the two, one
\* call at a time.
Other(n) == CHOOSE o \in Nodes : o # n

\* DummySwarm.connections of node n, as the set of its keys.
Connections(n) == {p \in DOMAIN established[n] : established[n][p] > 0}

\* A dial has connected its own side and not yet the other.
Dialing == \E n \in Nodes : Other(n) \in Connections(n) /\ n \notin Connections(Other(n))

\* No call of the test is under way.
Idle == wire = << >> /\ ~Dialing

CallsMade == Len(called["a"]) + Len(called["b"])

\* DummySwarm::dial, its first half: inject_connected on the dialling node
\* and the insert into its connections.
DialSelf ==
    \E n \in Nodes :
        /\ Idle
        /\ Connections(n) = {} /\ Connections(Other(n)) = {}
        /\ inject_connected(n, Other(n))
        /\ established' = [established EXCEPT ![n][Other(n)] = 1]
        /\ UNCHANGED harness

\* DummySwarm::dial, its second half: the same on the dialled node.
DialOther ==
    \E n \in Nodes :
        /\ wire = << >>
        /\ Other(n) \in Connections(n) /\ n \notin Connections(Other(n))
        /\ inject_connected(Other(n), n)
        /\ established' = [established EXCEPT ![Other(n)][n] = 1]
        /\ UNCHANGED harness

\* DummySwarm::subscribe, unsubscribe, broadcast.  called records the call
\* with the peers it notified.
TestSubscribe ==
    \E n \in Nodes, t \in Topics :
        /\ Idle /\ CallsMade < MaxCalls
        /\ subscribe(n, t)
        /\ called' = [called EXCEPT ![n] =
                         Append(@, [op |-> "subscribe", msg |-> Subscribe(t),
                                    to |-> DOMAIN peers[n]])]
        /\ UNCHANGED <<established, wire, returned>>
TestUnsubscribe ==
    \E n \in Nodes, t \in Topics :
        /\ Idle /\ CallsMade < MaxCalls
        /\ unsubscribe(n, t)
        /\ called' = [called EXCEPT ![n] =
                         Append(@, [op |-> "unsubscribe", msg |-> Unsubscribe(t),
                                    to |-> PeersOf(n, t)])]
        /\ UNCHANGED <<established, wire, returned>>
TestBroadcast ==
    \E n \in Nodes, t \in Topics, m \in Payloads :
        /\ Idle /\ CallsMade < MaxCalls
        /\ broadcast(n, t, m)
        /\ called' = [called EXCEPT ![n] =
                         Append(@, [op |-> "broadcast", msg |-> BroadcastMsg(t, m),
                                    to |-> PeersOf(n, t)])]
        /\ UNCHANGED <<established, wire, returned>>

\* One turn of the loop of DummySwarm::next on node n, up to the match on
\* what poll returned: a NotifyHandler for a peer in connections is taken to
\* be handed over, one for any other peer is dropped, a GenerateEvent is
\* returned to the test.  A notification is polled only when the queue of
\* its target has room for the event it brings.
NextPoll(n) ==
    /\ Idle
    /\ Running(n)
    /\ (/\ events[n] # << >>
        /\ Head(events[n]).kind = "NotifyHandler"
        /\ Head(events[n]).peer_id \in Connections(n) \cap Nodes)
           => Len(events[Head(events[n]).peer_id]) < MaxQueue
    /\ poll(n)
    /\ LET r == ret'[n] IN
           IF r.tag = "Ready" /\ r.event.kind = "NotifyHandler"
           THEN /\ wire' = IF r.event.peer_id \in Connections(n)
                           THEN <<[from |-> n, to |-> r.event.peer_id,
                                   event |-> r.event.event]>>
                           ELSE << >>
                /\ UNCHANGED returned
           ELSE IF r.tag = "Ready"
           THEN /\ returned' = [returned EXCEPT ![n] = Append(@, r.event.event)]
                /\ UNCHANGED wire
           ELSE UNCHANGED <<wire, returned>>
    /\ UNCHANGED <<established, called>>

\* The NotifyHandler arm of DummySwarm::next: the polled message is handed
\* to on_connection_handler_event of the other node as Rx.
NextDeliver ==
    /\ wire # << >>
    /\ on_connection_handler_event(wire[1].to, wire[1].from, Rx(wire[1].event))
    /\ wire' = << >>
    /\ UNCHANGED <<established, returned, called>>

NextDummySwarm ==
    \/ DialSelf
    \/ DialOther
    \/ TestSubscribe
    \/ TestUnsubscribe
    \/ TestBroadcast
    \/ \E n \in Nodes : NextPoll(n)
    \/ NextDeliver

\* The test keeps calling next on both nodes, a started dial returns, and a
\* polled notification is handed over.
SpecDummySwarm ==
    /\ Init
    /\ [][NextDummySwarm]_vars
    /\ \A n \in Nodes : WF_vars(NextPoll(n))
    /\ WF_vars(DialOther)
    /\ WF_vars(NextDeliver)

\* ------------------------------------------------------------------ properties
\* The entries of the local queue, as a set.
Queued == {events[Local][i] : i \in 1..Len(events[Local])}

\* The entries a step appended to the local queue: events' minus the prefix
\* events.
Appended == SubSeq(events'[Local], Len(events[Local]) + 1, Len(events'[Local]))

\* A step that only appends to the local queue.
AppendsOnly ==
    /\ Len(events'[Local]) >= Len(events[Local])
    /\ SubSeq(events'[Local], 1, Len(events[Local])) = events[Local]

\* C1: index symmetry.  Under a swarm that keeps its contract, in every
\* reachable state, for every peer p and topic t: t is in peers[p] iff p is in
\* topics[t], an absent entry counting as the empty set.
C1_IndexSymmetry ==
    \A p \in PeerIds, t \in Topics :
        t \in TopicsOf(Local, p) <=> p \in PeersOf(Local, t)

\* A connected peer subscribed to a topic, beside a topic whose entry was
\* emptied again and a peer that is not connected.
C1_Witness ==
    \E p, q \in Remotes, t, u \in Topics :
        /\ p # q /\ t # u
        /\ p \in DOMAIN peers[Local] /\ t \in peers[Local][p]
        /\ t \in DOMAIN topics[Local] /\ p \in topics[Local][t]
        /\ u \in DOMAIN topics[Local] /\ topics[Local][u] = {}
        /\ q \notin DOMAIN peers[Local]

\* C2: disconnect cleans the index.  Right after inject_disconnected(p), p is
\* no key of peers and in no set of topics, and the entries of every other
\* peer are as before.
C2_DisconnectCleansIndex ==
    [][\A p \in Remotes :
          inject_disconnected(Local, p) =>
              /\ p \notin DOMAIN peers'[Local]
              /\ \A t \in Topics : p \notin PeersOf(Local, t)'
              /\ \A q \in PeerIds \ {p} :
                     /\ q \in DOMAIN peers'[Local] <=> q \in DOMAIN peers[Local]
                     /\ TopicsOf(Local, q)' = TopicsOf(Local, q)
              /\ \A t \in Topics :
                     PeersOf(Local, t)' \ {p} = PeersOf(Local, t) \ {p}]_vars

\* The last connection of p closed after p had announced t (its event is still
\* queued), and q, also subscribed to t, is the only peer left in topics[t].
C2_Witness ==
    \E p, q \in Remotes, t \in Topics :
        /\ p # q
        /\ established[Local][p] = 0 /\ p \notin DOMAIN peers[Local]
        /\ GenerateEvent(Subscribed(p, t)) \in Queued
        /\ q \in DOMAIN peers[Local] /\ t \in peers[Local][q]
        /\ t \in DOMAIN topics[Local] /\ topics[Local][t] = {q}
        /\ ret[Local] = Unit

\* The peers the appended NotifyHandler entries are for.
AppendedTargets == {Appended[i].peer_id : i \in 1..Len(Appended)}

\* The step appended exactly one NotifyHandler carrying msg for each peer of
\* targets, and nothing else.
NotifiesExactly(targets, msg) ==
    /\ AppendsOnly
    /\ Len(Appended) = Cardinality(targets)
    /\ \A i \in 1..Len(Appended) :
           /\ Appended[i].kind = "NotifyHandler"
           /\ Appended[i].event = msg
    /\ AppendedTargets = targets

\* C3: broadcast fan-out.  broadcast(t, m) appends exactly one
\* NotifyHandler(p, Broadcast(t, m)) for each p of topics[t] and nothing else;
\* nothing when t is unknown or has no peers; it returns normally, whether or
\* not t is subscribed locally, and changes neither index nor subscriptions.
C3_BroadcastFanOut ==
    [][\A t \in Topics, m \in Payloads :
          broadcast(Local, t, m) =>
              /\ NotifiesExactly(PeersOf(Local, t), BroadcastMsg(t, m))
              /\ ret'[Local] = Unit
              /\ UNCHANGED <<subscriptions, peers, topics>>]_vars

\* A broadcast on a topic the node is not subscribed to went to both of the
\* topic's peers.
C3_Witness ==
    \E p, q \in Remotes, t \in Topics, m \in Payloads :
        /\ p # q
        /\ t \notin subscriptions[Local]
        /\ PeersOf(Local, t) = {p, q}
        /\ events[Local] = <<NotifyHandler(p, BroadcastMsg(t, m)),
                             NotifyHandler(q, BroadcastMsg(t, m))>>
        /\ ret[Local] = Unit

\* C4: no self-relay.  Handling Broadcast(t, m) received from p appends the
\* single entry GenerateEvent(Received(p, t, m)), no NotifyHandler, whether
\* or not t is subscribed locally, and changes neither index nor subscriptions.
C4_NoSelfRelay ==
    [][\A p \in Remotes, t \in Topics, m \in Payloads :
          on_connection_handler_event(Local, p, Rx(BroadcastMsg(t, m))) =>
              /\ AppendsOnly
              /\ Appended = <<GenerateEvent(Received(p, t, m))>>
              /\ UNCHANGED <<subscriptions, peers, topics>>]_vars

\* A broadcast of p on a topic that another peer q subscribes to and the node
\* itself does not was handled: only the Received event is queued.
C4_Witness ==
    \E p, q \in Remotes, t \in Topics, m \in Payloads :
        /\ p # q
        /\ t \notin subscriptions[Local]
        /\ q \in PeersOf(Local, t)
        /\ p \in DOMAIN peers[Local]
        /\ events[Local] = <<GenerateEvent(Received(p, t, m))>>
        /\ ret[Local] = Unit

\* C5: local subscribe is idempotent on subscriptions, not on notifications.
\* Every subscribe(t) appends exactly one NotifyHandler(p, Subscribe(t)) for
\* each key p of peers, also when t is subscribed already; subscriptions
\* becomes subscriptions with t, so a second call leaves it as the first did.
C5_SubscribeIdempotence ==
    [][\A t \in Topics :
          subscribe(Local, t) =>
              /\ NotifiesExactly(DOMAIN peers[Local], Subscribe(t))
              /\ Len(events'[Local]) =
                     Len(events[Local]) + Cardinality(DOMAIN peers[Local])
              /\ subscriptions'[Local] = subscriptions[Local] \cup {t}
              /\ (t \in subscriptions[Local] => subscriptions' = subscriptions)
              /\ UNCHANGED <<peers, topics>>]_vars

\* Two subscribe(t) calls while p stayed connected: p has announced a topic
\* (its event was queued before the two notifications and is drained), so
\* neither notification is the announcement of a connect.
C5_Witness ==
    \E p \in Remotes, t \in Topics :
        /\ DOMAIN peers[Local] = {p}
        /\ peers[Local][p] # {}
        /\ t \in subscriptions[Local]
        /\ events[Local] = <<NotifyHandler(p, Subscribe(t)),
                             NotifyHandler(p, Subscribe(t))>>
        /\ ret[Local] = Unit

\* C6: unsubscribe asymmetry.  unsubscribe(t) removes t from subscriptions
\* and appends exactly one NotifyHandler(p, Unsubscribe(t)) for each p of
\* topics[t], none for any other connected peer, also when t was not
\* subscribed.
C6_UnsubscribeAsymmetry ==
    [][\A t \in Topics :
          unsubscribe(Local, t) =>
              /\ NotifiesExactly(PeersOf(Local, t), Unsubscribe(t))
              /\ subscriptions'[Local] = subscriptions[Local] \ {t}
              /\ UNCHANGED <<peers, topics>>]_vars

\* Two unsubscribe(t) calls in a row (a subscribe between them would have
\* queued its notification for p between the two): the second found t not
\* subscribed.  Only p, which announced t, is notified; q, connected, is not.
C6_Witness ==
    \E p, q \in Remotes, t \in Topics :
        /\ p # q
        /\ q \in DOMAIN peers[Local] /\ t \notin peers[Local][q]
        /\ PeersOf(Local, t) = {p}
        /\ t \notin subscriptions[Local]
        /\ events[Local] = <<NotifyHandler(p, Unsubscribe(t)),
                             NotifyHandler(p, Unsubscribe(t))>>
        /\ ret[Local] = Unit

\* C7: announce on connect.  inject_connected(p) for p that is no key of
\* peers makes p a key with no topics and appends exactly one
\* NotifyHandler(p, Subscribe(t)) for each t of subscriptions, all for p;
\* no other peer's entry and no topic's peers change.
C7_AnnounceOnConnect ==
    [][\A p \in Remotes :
          (p \notin DOMAIN peers[Local] /\ inject_connected(Local, p)) =>
              /\ DOMAIN peers'[Local] = DOMAIN peers[Local] \cup {p}
              /\ peers'[Local][p] = {}
              /\ AppendsOnly
              /\ Len(Appended) = Cardinality(subscriptions[Local])
              /\ \A i \in 1..Len(Appended) :
                     /\ Appended[i].kind = "NotifyHandler"
                     /\ Appended[i].peer_id = p
                     /\ Appended[i].event.type = "Subscribe"
              /\ {Appended[i].event.topic : i \in 1..Len(Appended)} =
                     subscriptions[Local]
              /\ \A q \in DOMAIN peers[Local] : peers'[Local][q] = peers[Local][q]
              /\ UNCHANGED <<subscriptions, topics>>]_vars

\* p connected while q was connected with a topic announced and both topics
\* were subscribed locally: the two announcements are for p alone.
C7_Witness ==
    \E p, q \in Remotes, t, u \in Topics :
        /\ p # q /\ t # u
        /\ subscriptions[Local] = {t, u}
        /\ q \in DOMAIN peers[Local] /\ peers[Local][q] # {}
        /\ p \in DOMAIN peers[Local] /\ peers[Local][p] = {}
        /\ established[Local][p] = 1
        /\ events[Local] = <<NotifyHandler(p, Subscribe(t)),
                             NotifyHandler(p, Subscribe(u))>>
        /\ ret[Local] = Unit

\* A step in which the swarm opens a connection to a peer that has one, or
\* closes one of several connections of a peer.
ExtraConnectionStep ==
    \E p \in Remotes :
        \/ /\ established[Local][p] >= 1
           /\ established'[Local][p] = established[Local][p] + 1
        \/ /\ established[Local][p] >= 2
           /\ established'[Local][p] = established[Local][p] - 1

\* C8: no ghost peers under connection counting.  p is a key of peers iff the
\* swarm has an established connection to p; opening a further connection or
\* closing one that is not the last changes neither index, subscriptions nor
\* the queue.
C8_NoGhostPeers ==
    /\ [](\A p \in Remotes : p \in DOMAIN peers[Local] <=> established[Local][p] > 0)
    /\ [](DOMAIN peers[Local] \subseteq Remotes)
    /\ [][ExtraConnectionStep =>
              UNCHANGED <<subscriptions, peers, topics, events>>]_vars

\* p has two connections and the topic it announced is still recorded.
C8_Witness ==
    \E p \in Remotes, t \in Topics :
        /\ established[Local][p] = 2
        /\ p \in DOMAIN peers[Local] /\ t \in peers[Local][p]
        /\ p \in PeersOf(Local, t)

\* C9: FIFO drain.  A poll of a non-empty queue returns Ready of the oldest
\* entry and leaves the rest in order; a poll of an empty queue returns
\* Pending and changes nothing; every other call leaves the queued entries in
\* place and appends behind them.  So entries leave in the order they came.
C9_FifoDrain ==
    [][/\ (poll(Local) /\ events[Local] # << >>) =>
              /\ ret'[Local] = Ready(Head(events[Local]))
              /\ events'[Local] = Tail(events[Local])
       /\ (poll(Local) /\ events[Local] = << >>) =>
              /\ ret'[Local] = Pending
              /\ UNCHANGED <<subscriptions, peers, topics, events, established>>
       /\ ~poll(Local) => AppendsOnly]_vars

\* An event queued before a notification was drained first, the notification
\* is still queued.
C9_Witness ==
    /\ ret[Local].tag = "Ready"
    /\ ret[Local].event.kind = "GenerateEvent"
    /\ Len(events[Local]) = 1
    /\ events[Local][1].kind = "NotifyHandler"

\* The handler is called with a message of a peer that is no key of peers.
FromUnknownPeer(p, m) ==
    /\ p \notin DOMAIN peers[Local]
    /\ on_connection_handler_event(Local, p, Rx(m))

\* C10 as stated: a Subscribe, Unsubscribe or Broadcast of a peer that is no
\* key of peers is a no-op: the handler returns normally and leaves peers and
\* topics unchanged.
C10_UnknownPeerNoOp ==
    [][\A p \in Remotes, m \in Messages :
          FromUnknownPeer(p, m) =>
              /\ ret'[Local] # Panic
              /\ peers' = peers
              /\ topics' = topics]_vars

\* C10, amended: a Broadcast of a peer that is no key of peers returns
\* normally, appends its Received event and leaves peers and topics
\* unchanged; a Subscribe or Unsubscribe of such a peer panics, appends
\* nothing, leaves peers unchanged and changes no topic's peer set (Subscribe
\* leaves an empty entry behind for a topic that had none).
C10_UnknownPeer ==
    [][\A p \in Remotes, m \in Messages :
          FromUnknownPeer(p, m) =>
              /\ peers' = peers
              /\ \A t \in Topics : PeersOf(Local, t)' = PeersOf(Local, t)
              /\ IF m.type = "Broadcast"
                 THEN /\ ret'[Local] = Unit
                      /\ topics' = topics
                      /\ AppendsOnly
                      /\ Appended = <<GenerateEvent(Received(p, m.topic, m.data))>>
                 ELSE /\ ret'[Local] = Panic
                      /\ events' = events
                      /\ DOMAIN topics'[Local] = DOMAIN topics[Local] \cup
                             (IF m.type = "Subscribe" THEN {m.topic} ELSE {})]_vars

\* A Subscribe of a peer that is not connected panicked while another peer
\* was connected: the topic has an entry and no peers.
C10_Witness ==
    \E p, q \in Remotes, t \in Topics :
        /\ ret[Local] = Panic
        /\ p \notin DOMAIN peers[Local]
        /\ q \in DOMAIN peers[Local]
        /\ t \in DOMAIN topics[Local] /\ topics[Local][t] = {}

\* A step that is one of the local operations: an API call or a connection
\* hook.
LocalOperation ==
    \/ \E t \in Topics : subscribe(Local, t) \/ unsubscribe(Local, t)
    \/ \E t \in Topics, m \in Payloads : broadcast(Local, t, m)
    \/ \E p \in Remotes : inject_connected(Local, p) \/ inject_disconnected(Local, p)

\* The event the handler reports for message m received from p.
EventOf(p, m) ==
    IF m.type = "Subscribe" THEN Subscribed(p, m.topic)
    ELSE IF m.type = "Unsubscribe" THEN Unsubscribed(p, m.topic)
    ELSE Received(p, m.topic, m.data)

\* C14: no local echo.  subscribe, unsubscribe, broadcast, inject_connected
\* and inject_disconnected append no GenerateEvent entry; every GenerateEvent
\* entry is appended by the handling of a message received from a peer, and
\* names that peer.
C14_NoLocalEcho ==
    [][/\ LocalOperation =>
              \A i \in 1..Len(Appended) : Appended[i].kind # "GenerateEvent"
       /\ \A i \in 1..Len(Appended) :
              Appended[i].kind = "GenerateEvent" =>
                  \E p \in Remotes, m \in Messages :
                      /\ on_connection_handler_event(Local, p, Rx(m))
                      /\ Appended[i].event = EventOf(p, m)
                      /\ Appended[i].event.peer = p]_vars

\* A local subscribe(t) with p connected queued only the notification; the
\* event behind it reports p's own Subscribe.
C14_Witness ==
    \E p \in Remotes, t \in Topics :
        /\ t \in subscriptions[Local]
        /\ events[Local] = <<NotifyHandler(p, Subscribe(t)),
                             GenerateEvent(Subscribed(p, t))>>
        /\ ret[Local] = Unit

\* C15 as stated: inject_connected(p) for p that is a key of peers already
\* keeps the topics p announced and leaves topics unchanged, so the index is
\* symmetric after the call as it was before.
C15_ConnectKeepsEntry ==
    [][\A p \in Remotes :
          (p \in DOMAIN peers[Local] /\ inject_connected(Local, p)) =>
              /\ peers'[Local][p] = peers[Local][p]
              /\ topics' = topics
              /\ \A t \in Topics :
                     t \in TopicsOf(Local, p)' <=> p \in PeersOf(Local, t)']_vars

\* C16: inbound Subscribe and Unsubscribe always emit.  Subscribe(t) from a
\* connected p leaves t in peers[p] and p in topics[t]; Unsubscribe(t) leaves
\* t out of peers[p] and p out of topics[t]; each appends exactly its one
\* event and no notification, also when the index was in that state already;
\* no other peer's topics and no other topic's peers change.
C16_InboundAlwaysEmits ==
    [][\A p \in Remotes, t \in Topics :
          /\ (p \in DOMAIN peers[Local]
              /\ on_connection_handler_event(Local, p, Rx(Subscribe(t)))) =>
                 /\ t \in TopicsOf(Local, p)' /\ p \in PeersOf(Local, t)'
                 /\ TopicsOf(Local, p)' = TopicsOf(Local, p) \cup {t}
                 /\ PeersOf(Local, t)' = PeersOf(Local, t) \cup {p}
                 /\ AppendsOnly
                 /\ Appended = <<GenerateEvent(Subscribed(p, t))>>
                 /\ \A q \in PeerIds \ {p} : TopicsOf(Local, q)' = TopicsOf(Local, q)
                 /\ \A u \in Topics \ {t} : PeersOf(Local, u)' = PeersOf(Local, u)
                 /\ DOMAIN peers'[Local] = DOMAIN peers[Local]
          /\ (p \in DOMAIN peers[Local]
              /\ on_connection_handler_event(Local, p, Rx(Unsubscribe(t)))) =>
                 /\ t \notin TopicsOf(Local, p)' /\ p \notin PeersOf(Local, t)'
                 /\ TopicsOf(Local, p)' = TopicsOf(Local, p) \ {t}
                 /\ PeersOf(Local, t)' = PeersOf(Local, t) \ {p}
                 /\ AppendsOnly
                 /\ Appended = <<GenerateEvent(Unsubscribed(p, t))>>
                 /\ \A q \in PeerIds \ {p} : TopicsOf(Local, q)' = TopicsOf(Local, q)
                 /\ \A u \in Topics \ {t} : PeersOf(Local, u)' = PeersOf(Local, u)
                 /\ DOMAIN peers'[Local] = DOMAIN peers[Local]]_vars

\* p sent Subscribe(t) twice: both events are queued, t is recorded once.
C16_Witness ==
    \E p \in Remotes, t \in Topics :
        /\ p \in DOMAIN peers[Local] /\ peers[Local][p] = {t}
        /\ PeersOf(Local, t) = {p}
        /\ events[Local] = <<GenerateEvent(Subscribed(p, t)),
                             GenerateEvent(Subscribed(p, t))>>
        /\ ret[Local] = Unit

\* C17: disconnect does not touch the queue.  inject_disconnected(p) appends
\* nothing and removes nothing: the queue, with the notifications queued for
\* p, and subscriptions are as before.
C17_DisconnectKeepsQueue ==
    [][\A p \in Remotes :
          inject_disconnected(Local, p) =>
              /\ events' = events
              /\ subscriptions' = subscriptions]_vars

\* A notification queued for p was drained by a poll after p's last
\* connection closed, and an event of p's is still queued.
C17_Witness ==
    \E p \in Remotes, t \in Topics :
        /\ established[Local][p] = 0 /\ p \notin DOMAIN peers[Local]
        /\ ret[Local] = Ready(NotifyHandler(p, Subscribe(t)))
        /\ events[Local] = <<GenerateEvent(Subscribed(p, t))>>

\* C18: local subscriptions change only locally.  A step that changes
\* subscriptions is a subscribe(t) that adds t or an unsubscribe(t) that
\* removes t; handled messages, Tx, connection events, broadcast and poll
\* leave it as it is, and Tx also leaves peers, topics and the queue.
C18_SubscriptionsOnlyLocal ==
    [][/\ subscriptions' # subscriptions =>
              \E t \in Topics :
                  \/ /\ subscribe(Local, t)
                     /\ subscriptions'[Local] = subscriptions[Local] \cup {t}
                  \/ /\ unsubscribe(Local, t)
                     /\ subscriptions'[Local] = subscriptions[Local] \ {t}
       /\ \A p \in Remotes :
              /\ \A m \in Messages :
                     on_connection_handler_event(Local, p, Rx(m)) =>
                         subscriptions' = subscriptions
              /\ on_connection_handler_event(Local, p, Tx) =>
                     UNCHANGED <<subscriptions, peers, topics, events>>
              /\ (inject_connected(Local, p) \/ inject_disconnected(Local, p)) =>
                     subscriptions' = subscriptions
       /\ \A t \in Topics, m \in Payloads :
              broadcast(Local, t, m) => subscriptions' = subscriptions
       /\ poll(Local) => subscriptions' = subscriptions]_vars

\* p's Subscribe(t) was handled and recorded while the node itself
\* subscribes to nothing.
C18_Witness ==
    \E p \in Remotes, t \in Topics :
        /\ subscriptions[Local] = {}
        /\ p \in DOMAIN peers[Local] /\ t \in peers[Local][p]
        /\ events[Local] = <<GenerateEvent(Subscribed(p, t))>>
        /\ ret[Local] = Unit

\* C20: notifications target only connected peers.  Under a swarm that keeps
\* its contract, the peer of every NotifyHandler entry is a key of peers when
\* the call that appends it returns; no peer of topics is a peer whose
\* disconnect was processed, so broadcast and unsubscribe notify none.
C20_NotifyOnlyConnected ==
    /\ [][\A i \in 1..Len(Appended) :
              Appended[i].kind = "NotifyHandler" =>
                  Appended[i].peer_id \in DOMAIN peers'[Local]]_vars
    /\ [](\A t \in Topics : PeersOf(Local, t) \subseteq DOMAIN peers[Local])

\* p announced t (its event is still queued) and disconnected; the broadcast
\* on t that followed notified q alone.
C20_Witness ==
    \E p, q \in Remotes, t \in Topics, m \in Payloads :
        /\ p # q
        /\ established[Local][p] = 0 /\ p \notin DOMAIN peers[Local]
        /\ PeersOf(Local, t) = {q}
        /\ events[Local] = <<GenerateEvent(Subscribed(p, t)),
                             NotifyHandler(q, BroadcastMsg(t, m))>>
        /\ ret[Local] = Unit

\* Both halves of the dial are done: each node is in the other's connections.
Connected == \A n \in Nodes : Other(n) \in Connections(n)

\* The number of times DummySwarm::next returned event e on node n.
ReturnedTimes(n, e) ==
    Cardinality({i \in 1..Len(returned[n]) : returned[n][i] = e})

\* C11: subscription propagation.  With the two nodes connected, whenever t
\* is in the subscriptions of one of them, its peer's next eventually returns
\* Subscribed(node, t) and the peer has the node among the peers of t,
\* whether the subscribe came before the dial or after it.
C11_SubscriptionPropagation ==
    \A n \in Nodes, t \in Topics :
        /\ (Connected /\ t \in subscriptions[n])
               ~> (ReturnedTimes(Other(n), Subscribed(n, t)) > 0)
        /\ (Connected /\ t \in subscriptions[n])
               ~> (n \in PeersOf(Other(n), t))

\* a subscribed to t, b's next returned Subscribed(a, t) and b lists a for t.
C11_Witness ==
    \E t \in Topics :
        /\ Connected
        /\ t \in subscriptions[Local]
        /\ returned[Other(Local)] = <<Subscribed(Local, t)>>
        /\ Local \in PeersOf(Other(Local), t)
        /\ t \in TopicsOf(Other(Local), Local)

\* The calls of node n that queued message msg for the other node.
Notified(n, msg) ==
    Cardinality({i \in 1..Len(called[n]) :
                    called[n][i].msg = msg /\ Other(n) \in called[n][i].to})

\* The entries the step appended to the queue of node n.
AppendedAt(n) == SubSeq(events'[n], Len(events[n]) + 1, Len(events'[n]))

\* The step is an API call of node n.
Calls(n) == called'[n] # called[n]

\* C12: broadcast delivery.  For every broadcast(t, m) a node makes while its
\* peer is among the peers of t, the peer's next eventually returns
\* Received(node, t, m), once per such call and never more often; the call
\* appends no event to the node's own queue, and the node's next never
\* returns a Received of its own.
C12_BroadcastDelivery ==
    /\ \A n \in Nodes, t \in Topics, m \in Payloads :
           /\ [](ReturnedTimes(Other(n), Received(n, t, m))
                     <= Notified(n, BroadcastMsg(t, m)))
           /\ \A k \in 1..MaxCalls :
                  (Notified(n, BroadcastMsg(t, m)) >= k)
                      ~> (ReturnedTimes(Other(n), Received(n, t, m)) >= k)
           /\ [](ReturnedTimes(n, Received(n, t, m)) = 0)
    /\ [][\A n \in Nodes :
              (Calls(n) /\ called'[n][Len(called'[n])].op = "broadcast") =>
                  /\ returned' = returned
                  /\ \A i \in 1..Len(AppendedAt(n)) :
                         AppendedAt(n)[i].kind = "NotifyHandler"]_vars

\* b's one broadcast on t, made while a was a peer of t, came out of a's next
\* once, and b's next returned no Received.
C12_Witness ==
    \E t \in Topics, m \in Payloads :
        /\ Connected
        /\ Notified(Other(Local), BroadcastMsg(t, m)) = 1
        /\ ReturnedTimes(Local, Received(Other(Local), t, m)) = 1
        /\ \A i \in 1..Len(returned[Other(Local)]) :
               returned[Other(Local)][i].type # "Received"
        /\ events[Local] = << >> /\ events[Other(Local)] = << >> /\ wire = << >>

\* C13: unsubscribe propagation.  For every unsubscribe(t) a node makes
\* while its peer is among the peers of t, the peer's next eventually returns
\* Unsubscribed(node, t); when the peer handles the Unsubscribe, the node is
\* out of its peers of t and t out of its topics of the node; the call
\* appends no event to the node's own queue, and the node's next never
\* returns an Unsubscribed of its own.
C13_UnsubscribePropagation ==
    /\ \A n \in Nodes, t \in Topics :
           /\ \A k \in 1..MaxCalls :
                  (Notified(n, Unsubscribe(t)) >= k)
                      ~> (ReturnedTimes(Other(n), Unsubscribed(n, t)) >= k)
           /\ [](ReturnedTimes(n, Unsubscribed(n, t)) = 0)
    /\ [][/\ \A n \in Nodes, t \in Topics :
                 (/\ wire = <<[from |-> n, to |-> Other(n), event |-> Unsubscribe(t)]>>
                  /\ NextDeliver) =>
                     /\ n \notin PeersOf(Other(n), t)'
                     /\ t \notin TopicsOf(Other(n), n)'
          /\ \A n \in Nodes :
                 (Calls(n) /\ called'[n][Len(called'[n])].op = "unsubscribe") =>
                     /\ returned' = returned
                     /\ \A i \in 1..Len(AppendedAt(n)) :
                            AppendedAt(n)[i].kind = "NotifyHandler"]_vars

\* a unsubscribed from t while b was a peer of t; b's next returned
\* Unsubscribed(a, t) and b's index no longer has a under t.
C13_Witness ==
    \E t \in Topics :
        /\ Connected
        /\ Notified(Local, Unsubscribe(t)) = 1
        /\ ReturnedTimes(Other(Local), Unsubscribed(Local, t)) = 1
        /\ Local \notin PeersOf(Other(Local), t)
        /\ t \notin TopicsOf(Other(Local), Local)
        /\ \A i \in 1..Len(returned[Local]) : returned[Local][i].type # "Unsubscribed"

\* The two nodes are connected, both queues are empty and no notification
\* is between poll and handler.
Quiescent ==
    /\ Connected
    /\ wire = << >>
    /\ \A n \in Nodes : events[n] = << >>

\* C19 as stated: quiescent view consistency.  In every quiescent state the
\* topics a node records for its peer are the peer's subscriptions.
C19_QuiescentViewEqual ==
    Quiescent =>
        \A n \in Nodes : TopicsOf(Other(n), n) = subscriptions[n]

\* C19, amended: in every quiescent state the topics a node records for its
\* peer include the peer's subscriptions; a recorded topic the peer does not
\* subscribe to is one it unsubscribed from in a call that found the node
\* not among the peers of that topic, and so notified nobody.
C19_QuiescentView ==
    Quiescent =>
        \A n \in Nodes :
            /\ subscriptions[n] \subseteq TopicsOf(Other(n), n)
            /\ \A t \in TopicsOf(Other(n), n) \ subscriptions[n] :
                   \E i \in 1..Len(called[n]) :
                       /\ called[n][i].msg = Unsubscribe(t)
                       /\ Other(n) \notin called[n][i].to

\* Quiescent: a subscribes to u alone, and b records for a both u and the
\* topic t that a has unsubscribed from.
C19_Witness ==
    \E t, u \in Topics :
        /\ Quiescent
        /\ subscriptions[Local] = {u}
        /\ TopicsOf(Other(Local), Local) = {t, u}
        /\ t # u

====
